---- MODULE Spec2Model ----
(***************************************************************************)
(* BatchRender addon (src/BatchRender.py): the operators of the addon as   *)
(* a state machine over the host's scene.                                  *)
(*                                                                         *)
(* Host facts the model rests on (the host is not part of the source):     *)
(*  - objects are identified by their name; bpy.data.objects is the set    *)
(*    `objects`; a deleted object leaves a list entry that fails the       *)
(*    validity test of render_next_object;                                 *)
(*  - bpy.ops.render.render('INVOKE_DEFAULT') starts an asynchronous job   *)
(*    when none is running, is ignored when one is running, and may raise; *)
(*  - bpy.app.is_job_running('RENDER') answers whether a job is running;   *)
(*  - a TIMER event is handed to every modal handler, newest first (the    *)
(*    host passes timer events on whatever a handler returns), and a       *)
(*    handler that returns FINISHED or CANCELLED is removed;               *)
(*  - every execution of an operator is a fresh instance;                   *)
(*  - context.active_object is an input of the operators that read it, and *)
(*    so is scene.batch_render_index, the row the user picked, for         *)
(*    remove_from_batch (the value an operator leaves there is one of      *)
(*    the inputs).                                                         *)
(* Every operator is a function from the state it runs in to the state it  *)
(* leaves, its return value and its events (renders invoked, entries       *)
(* skipped, batches finished); the actions apply these functions, and the  *)
(* properties read the events of every step a reachable state allows.      *)
(* Fields whose name starts with h_ are history: the code does not hold    *)
(* them, the properties read them.                                         *)
(***************************************************************************)
EXTENDS Naturals, Integers, Sequences, FiniteSets, TLC

\* Bounds of the model.
NumObjs == 2
MaxOps == 2
MaxTimers == 1

Objs == 1..NumObjs

\* "no object": context.active_object is None, a cleared pointer, an empty name.
NoObject == 0

VARIABLES
  objects,   \* bpy.data.objects: the names of the objects that exist
  hide,      \* per object: hide_viewport, hide_render
  scene,     \* the scene properties of register() and scene.render
  job,       \* whether a render job of the host is running
  ops,       \* the running RENDER_OT_batch_render instances (modal handlers), oldest first
  timers     \* the pending restore_settings timers of bpy.app.timers

vars == <<objects, hide, scene, job, ops, timers>>

Visible == [hide_viewport |-> FALSE, hide_render |-> FALSE]
Hidden == [hide_viewport |-> TRUE, hide_render |-> TRUE]

EmptyStates == [o \in {} |-> Visible]

\* File paths: the part before the last '.', and the extension ("" when the
\* path holds no '.').
UserPath == [stem |-> <<"/tmp/render">>, ext |-> ".png"]

\* extensions.get(file_format, '.png') of set_file_extension
SingleExtension(file_format) ==
  CASE file_format = "PNG" -> ".png"
    [] file_format = "JPEG" -> ".jpg"
    [] file_format = "OPEN_EXR" -> ".exr"
    [] file_format = "TIFF" -> ".tiff"
    [] file_format = "BMP" -> ".bmp"
    [] file_format = "TARGA" -> ".tga"
    [] OTHER -> ".png"

\* extensions.get(file_format, '.png') of get_file_extension
get_file_extension(file_format) ==
  CASE file_format = "PNG" -> ".png"
    [] file_format = "JPEG" -> ".jpg"
    [] file_format = "OPEN_EXR" -> ".exr"
    [] file_format = "TIFF" -> ".tiff"
    [] file_format = "BMP" -> ".bmp"
    [] file_format = "TARGA" -> ".tga"
    [] file_format = "IRIS" -> ".rgb"
    [] file_format = "CINEON" -> ".cin"
    [] file_format = "DPX" -> ".dpx"
    [] OTHER -> ".png"

\* set_file_extension: the path gets the format's extension unless it ends with it.
set_file_extension(sc) ==
  LET extension == SingleExtension(sc.file_format) IN
  IF sc.filepath.ext = extension THEN sc
  ELSE [sc EXCEPT !.filepath.ext = extension]

\* scene.batch_render_progress, a FloatProperty clamped to 0..100, kept as the
\* fraction <<n, d>> of 100.
Progress(n, d) ==
  IF n <= 0 THEN <<0, 1>>
  ELSE IF n >= d THEN <<1, 1>>
  ELSE <<n, d>>

\* The registered defaults of the scene properties, and the host's defaults
\* of scene.render.
SceneDefaults ==
  [ single_render_restore |-> TRUE,
    batch_render_objects |-> << >>,
    batch_render_path |-> "//renders/",
    batch_render_prefix |-> "",
    batch_render_progress |-> <<0, 1>>,
    batch_render_current_object |-> NoObject,
    batch_render_status |-> <<"Ready">>,
    batch_render_eta |-> "",
    batch_render_cancelled |-> FALSE,
    filepath |-> UserPath,
    file_format |-> "PNG" ]

\* A new scene, "Auto Restore" being `restore`; the user has set or emptied
\* the output folder.
InitWith(restore) ==
  /\ objects = Objs
  /\ hide = [o \in Objs |-> Visible]
  /\ \E p \in {"", "//renders/"} :
       scene = [SceneDefaults EXCEPT !.batch_render_path = p,
                                     !.single_render_restore = restore]
  /\ job = FALSE
  /\ ops = << >>
  /\ timers = << >>

\* collection.remove(index), k being index + 1: the sequence s without its k-th element.
RemoveAt(s, k) == [i \in 1..(Len(s) - 1) |-> IF i < k THEN s[i] ELSE s[i + 1]]

\* A fresh RENDER_OT_batch_render instance (the class attributes).
NewOp ==
  [ timer |-> FALSE, current_index |-> 0, visibility_states |-> EmptyStates,
    original_filepath |-> UserPath, total_objects |-> 0, is_running |-> FALSE,
    h_hide |-> EmptyStates,   \* the visibility when the batch was started
    h_filepath |-> UserPath,  \* scene.render.filepath when the batch was started
    h_edited |-> FALSE,       \* the list was edited while the batch ran
    h_last |-> -1,            \* the last list index the batch came to
    h_paths |-> << >>,        \* the output paths of the renders the batch invoked
    h_cancelReq |-> FALSE,    \* cancel was requested while the batch ran
    h_job |-> FALSE ]         \* the render job this batch started is running

\* The world an operator instance runs in, and what it has done so far.
World(self) ==
  [hide |-> hide, scene |-> scene, job |-> job, self |-> self, ev |-> << >>, ret |-> ""]

----
\* The host.

\* The user deletes an object.
DeleteObject(o) ==
  /\ o \in objects
  /\ objects' = objects \ {o}
  /\ hide' = [hide EXCEPT ![o] = Visible]
  /\ UNCHANGED <<scene, job, ops, timers>>

\* The running render job ends.
JobDone ==
  /\ job
  /\ job' = FALSE
  /\ timers' = [k \in 1..Len(timers) |-> [timers[k] EXCEPT !.h_job = FALSE]]
  /\ ops' = [k \in 1..Len(ops) |-> [ops[k] EXCEPT !.h_job = FALSE]]
  /\ UNCHANGED <<objects, hide, scene>>

\* bpy.ops.render.render('INVOKE_DEFAULT') in the world w, for object obj:
\* the invocation is recorded with the state it happens in.
HostRender(w, by, obj, idx, raises) ==
  [w EXCEPT !.job = IF raises THEN @ ELSE TRUE,
            !.self.h_job = IF raises \/ w.job THEN @ ELSE TRUE,
            !.ev = Append(@, [t |-> "invoke", by |-> by, obj |-> obj, idx |-> idx,
                              busy |-> w.job, ownJob |-> w.self.h_job,
                              hide |-> w.hide, filepath |-> w.scene.filepath,
                              raised |-> raises,
                              valid |-> (obj \in objects),
                              h_last |-> w.self.h_last,
                              h_paths |-> w.self.h_paths,
                              edited |-> w.self.h_edited,
                              afterCancel |-> w.self.h_cancelReq])]

----
\* RENDER_OT_batch_render

\* obj.name of object o, as characters: "Cube.1", "Cube_1", "Cube.3", ...
\* (two names that bpy.path.clean_name makes equal are among them).
ObjName(o) ==
  IF o = 2 THEN <<"C", "u", "b", "e", "_", "1">>
  ELSE <<"C", "u", "b", "e", ".", ToString(o)>>

\* bpy.path.clean_name: every character that is no letter or digit becomes '_'.
clean_name(name) ==
  [i \in DOMAIN name |-> IF name[i] \in {".", " ", "-", "/"} THEN "_" ELSE name[i]]

\* The validity test without the lookup in bpy.data.objects.
IsValidUnlooked(current_obj) == current_obj # NoObject

\* "not current_obj or current_obj.name not in bpy.data.objects" is false
IsValid(current_obj) == current_obj # NoObject /\ current_obj \in objects

\* The isolation without its second half: the current object stays hidden.
HideAllObjects(h, current_obj) ==
  [o \in Objs |-> IF o \in objects THEN Hidden ELSE h[o]]

\* "for obj in bpy.data.objects: hide", then the current object shown
HideAllButCurrent(h, current_obj) ==
  [o \in Objs |-> IF o = current_obj THEN Visible
                  ELSE IF o \in objects THEN Hidden ELSE h[o]]

\* f"{n:03d}": the decimal digits of n, zero-padded to three.
Pad3(n) ==
  IF n < 1000
  THEN <<ToString(n \div 100), ToString((n \div 10) % 10), ToString(n % 10)>>
  ELSE <<ToString(n)>>

\* A filename without the list position.
FilenameUnnumbered(prefix, name, index) ==
  (IF prefix # "" THEN <<prefix, "_">> ELSE << >>) \o clean_name(name)

\* f"{prefix}_{clean_name}_{index + 1:03d}", or without the prefix when it is empty
Filename(prefix, name, index) ==
  (IF prefix # "" THEN <<prefix, "_">> ELSE << >>)
    \o clean_name(name) \o <<"_">> \o Pad3(index + 1)

\* os.path.join(abspath(batch_render_path), filename + extension)
BatchFilepath(sc, current_obj, index) ==
  [stem |-> <<sc.batch_render_path>>
              \o Filename(sc.batch_render_prefix, ObjName(current_obj), index),
   ext |-> get_file_extension(sc.file_format)]

\* A restoration that restores nothing.
RestoreNothing(h, states) == h

\* "for obj_name, states in ...items(): if obj_name in bpy.data.objects: restore"
RestoreVisibility(h, states) ==
  [o \in Objs |-> IF o \in DOMAIN states /\ o \in objects THEN states[o] ELSE h[o]]

\* A restoration that leaves the path of the last entry.
KeepFilepath(sc, original_filepath) == sc

\* "scene.render.filepath = self._original_filepath"
RestoreFilepath(sc, original_filepath) == [sc EXCEPT !.filepath = original_filepath]

\* finish_batch_render(context, cancelled)
finish_batch_render(w, cancelled) ==
  LET s == w.self
      h1 == RestoreVisibility(w.hide, s.visibility_states)
      sc1 == RestoreFilepath(w.scene, s.original_filepath)
      sc2 == IF cancelled
             THEN [sc1 EXCEPT !.batch_render_progress = <<0, 1>>,
                              !.batch_render_status = <<"Cancelled by user">>,
                              !.batch_render_eta = "",
                              !.batch_render_current_object = NoObject,
                              !.batch_render_cancelled = FALSE]
             ELSE [sc1 EXCEPT !.batch_render_progress = <<1, 1>>,
                              !.batch_render_current_object = NoObject,
                              !.batch_render_status = <<"Completed", s.total_objects>>,
                              !.batch_render_eta = "Total time"]
  IN [w EXCEPT
        !.hide = h1,
        !.scene = sc2,
        !.self = [NewOp EXCEPT !.original_filepath = s.original_filepath,
                               !.total_objects = s.total_objects],
        !.ev = Append(@, [t |-> "finish", cancelled |-> cancelled,
                          wasRunning |-> s.is_running, hadTimer |-> s.timer,
                          busy |-> w.job, ownJob |-> s.h_job,
                          h_hide |-> s.h_hide, hide |-> h1,
                          h_filepath |-> s.h_filepath, filepath |-> sc2.filepath,
                          edited |-> s.h_edited, h_last |-> s.h_last,
                          h_paths |-> s.h_paths,
                          list |-> w.scene.batch_render_objects,
                          total |-> s.total_objects])]

\* An error path that passes over the entry after the failing one.
IndexPastNext(current_index) == current_index + 2

\* "self._current_index += 1" of the except branch
IndexAfterError(current_index) == current_index + 1

\* render_next_object(context); the invocations for the list indices in F raise.
RECURSIVE render_next_object(_, _)
render_next_object(w, F) ==
  LET s == w.self
      list == w.scene.batch_render_objects
      i == s.current_index
  IN
  IF i >= Len(list) THEN w
  ELSE
    LET current_obj == list[i + 1] IN
    IF ~IsValid(current_obj)
    THEN LET w1 == [w EXCEPT
                      !.self.current_index = i + 1,
                      !.self.h_last = i,
                      !.ev = Append(@, [t |-> "skip", idx |-> i, obj |-> current_obj,
                                        valid |-> (current_obj \in objects),
                                        h_last |-> s.h_last, edited |-> s.h_edited])]
         IN IF i + 1 < Len(list) THEN render_next_object(w1, F)
            ELSE finish_batch_render(w1, FALSE)
    ELSE LET sc == [w.scene EXCEPT
                      !.filepath = BatchFilepath(w.scene, current_obj, i),
                      !.batch_render_current_object = current_obj,
                      !.batch_render_status =
                          <<"Rendering", current_obj, i + 1, s.total_objects>>]
             w1 == [w EXCEPT !.hide = HideAllButCurrent(w.hide, current_obj),
                             !.scene = sc]
             w2 == [HostRender(w1, "batch", current_obj, i, i \in F)
                      EXCEPT !.self.h_last = i,
                             !.self.h_paths = Append(@, sc.filepath)]
         IN IF i \notin F THEN w2
            ELSE LET w3 == [w2 EXCEPT !.self.current_index = IndexAfterError(i)]
                 IN IF w3.self.current_index < Len(list) THEN render_next_object(w3, F)
                    ELSE finish_batch_render(w3, FALSE)

\* update_progress_info(context)
update_progress_info(w) ==
  LET s == w.self IN
  IF s.total_objects > 0 /\ s.current_index > 0
  THEN [w EXCEPT !.scene.batch_render_eta = "ETA",
                 !.scene.batch_render_progress = Progress(s.current_index, s.total_objects)]
  ELSE w

\* "if self._is_running: self.update_progress_info(context)"
UpdateIfRunning(w) == IF w.self.is_running THEN update_progress_info(w) ELSE w

\* "self._current_index += 1" of modal
NextIndex(current_index) == current_index + 1

\* modal(context, event) for a TIMER event.
modal(w, F) ==
  LET s == w.self
      note(w1, ret) ==
        [w1 EXCEPT !.ret = ret,
                   !.ev = Append(@, [t |-> "modal", ret |-> ret,
                                     afterCancel |-> s.h_cancelReq,
                                     wasRunning |-> s.is_running])]
  IN
  IF w.scene.batch_render_cancelled
  THEN note(finish_batch_render(w, TRUE), "CANCELLED")
  ELSE
    LET is_rendering == w.job IN
    IF ~is_rendering /\ s.is_running
    THEN LET w1 == [w EXCEPT
                      !.scene.batch_render_progress =
                          Progress(s.current_index + 1, s.total_objects),
                      !.self.current_index = NextIndex(s.current_index)]
         IN IF w1.self.current_index < Len(w.scene.batch_render_objects)
            THEN note(UpdateIfRunning(render_next_object(w1, F)), "PASS_THROUGH")
            ELSE note(finish_batch_render(w1, FALSE), "FINISHED")
    ELSE note(UpdateIfRunning(w), "PASS_THROUGH")

\* "for obj in bpy.data.objects: self._visibility_states[obj.name] = {...}"
SaveVisibility(h) == [o \in objects |-> h[o]]

\* The first check of execute alone.
EmptyListOnly(sc) == Len(sc.batch_render_objects) = 0

\* execute: the two checks that come first, "len(...) == 0" and "not batch_render_path"
NothingToRender(sc) == Len(sc.batch_render_objects) = 0 \/ sc.batch_render_path = ""

\* The reset of execute without the cancel flag.
ResetButCancelled(sc) ==
  [sc EXCEPT !.batch_render_progress = <<0, 1>>,
             !.batch_render_current_object = NoObject,
             !.batch_render_status = <<"Starting batch render...">>,
             !.batch_render_eta = "Calculating..."]

\* "Reset progress and status" of execute
ResetStatus(sc) ==
  [sc EXCEPT !.batch_render_cancelled = FALSE,
             !.batch_render_progress = <<0, 1>>,
             !.batch_render_current_object = NoObject,
             !.batch_render_status = <<"Starting batch render...">>,
             !.batch_render_eta = "Calculating..."]

\* execute(context); the output folder exists or can be made, and is
\* writable (the checks of lines 232-255 pass).
execute(F) ==
  IF NothingToRender(scene)
  THEN [World(NewOp) EXCEPT !.ret = "CANCELLED"]
  ELSE
    LET self == [NewOp EXCEPT
                   !.original_filepath = scene.filepath,
                   !.visibility_states = SaveVisibility(hide),
                   !.total_objects = Len(scene.batch_render_objects),
                   !.is_running = TRUE,
                   !.current_index = 0,
                   !.h_hide = [o \in objects |-> hide[o]],
                   !.h_filepath = scene.filepath]
        sc == ResetStatus(scene)
        w1 == render_next_object([World(self) EXCEPT !.scene = sc], F)
    IN [w1 EXCEPT !.self.timer = TRUE, !.ret = "RUNNING_MODAL"]

\* render.batch_render: a modal handler is added when execute returns
\* RUNNING_MODAL.
BatchRender(F) ==
  LET w == execute(F) IN
  IF w.ret = "CANCELLED"
  THEN UNCHANGED vars
  ELSE /\ Len(ops) < MaxOps
       /\ hide' = w.hide
       /\ scene' = w.scene
       /\ job' = w.job
       /\ ops' = Append(ops, w.self)
       /\ UNCHANGED <<objects, timers>>

\* A TIMER event, handed to handler k and then to the older ones; st is the
\* state so far. A handler that returns FINISHED or CANCELLED is removed.
RECURSIVE Deliver(_, _, _)
Deliver(st, k, F) ==
  IF k = 0 THEN st
  ELSE LET r == modal([hide |-> st.hide, scene |-> st.scene, job |-> st.job,
                        self |-> st.ops[k], ev |-> << >>, ret |-> ""], F)
           st1 == [hide |-> r.hide, scene |-> r.scene, job |-> r.job,
                   ops |-> [st.ops EXCEPT ![k] = r.self],
                   evs |-> Append(st.evs, r.ev)]
       IN IF r.ret = "PASS_THROUGH" THEN Deliver(st1, k - 1, F)
          ELSE Deliver([st1 EXCEPT !.ops = RemoveAt(st.ops, k)], k - 1, F)

\* The state after a TIMER event, and the events of each handler it came to.
timer_event(F) ==
  Deliver([hide |-> hide, scene |-> scene, job |-> job, ops |-> ops, evs |-> << >>],
          Len(ops), F)

\* An event timer of a running instance fires.
Tick(F) ==
  /\ \E k \in 1..Len(ops) : ops[k].timer
  /\ LET st == timer_event(F) IN
     /\ hide' = st.hide
     /\ scene' = st.scene
     /\ job' = st.job
     /\ ops' = st.ops
  /\ UNCHANGED <<objects, timers>>

\* render.cancel_batch
CancelBatch ==
  /\ scene' = [scene EXCEPT !.batch_render_cancelled = TRUE]
  /\ ops' = [k \in 1..Len(ops) |->
              IF ops[k].is_running THEN [ops[k] EXCEPT !.h_cancelReq = TRUE] ELSE ops[k]]
  /\ UNCHANGED <<objects, hide, job, timers>>

----
\* The batch list.

\* The list was edited: every running batch remembers it.
MarkEdited(os) ==
  [k \in 1..Len(os) |-> IF os[k].is_running THEN [os[k] EXCEPT !.h_edited = TRUE] ELSE os[k]]

\* A duplicate test that finds nothing.
NeverInList(list, selected_obj) == FALSE

\* "for item in scene.batch_render_objects: if item.obj == selected_obj"
AlreadyInList(list, selected_obj) == \E i \in 1..Len(list) : list[i] = selected_obj

\* add_to_batch.execute: the list it leaves and its return value.
add_to_batch(active) ==
  LET list == scene.batch_render_objects IN
  IF active = NoObject \/ AlreadyInList(list, active)
  THEN [list |-> list, ret |-> "CANCELLED"]
  ELSE [list |-> Append(list, active), ret |-> "FINISHED"]

\* render.add_to_batch
AddToBatch(active) ==
  LET r == add_to_batch(active) IN
  /\ scene' = [scene EXCEPT !.batch_render_objects = r.list]
  /\ ops' = IF r.ret = "FINISHED" THEN MarkEdited(ops) ELSE ops
  /\ UNCHANGED <<objects, hide, job, timers>>

\* render.remove_from_batch, scene.batch_render_index being index.
RemoveFromBatch(index) ==
  LET list == scene.batch_render_objects IN
  IF 0 <= index /\ index < Len(list)
  THEN /\ scene' = [scene EXCEPT !.batch_render_objects = RemoveAt(list, index + 1)]
       /\ ops' = MarkEdited(ops)
       /\ UNCHANGED <<objects, hide, job, timers>>
  ELSE UNCHANGED vars

\* render.clear_batch
ClearBatch ==
  /\ scene' = [scene EXCEPT !.batch_render_objects = << >>]
  /\ ops' = IF scene.batch_render_objects = << >> THEN ops ELSE MarkEdited(ops)
  /\ UNCHANGED <<objects, hide, job, timers>>

----
\* RENDER_OT_single_object, RENDER_OT_restore_all, RENDER_OT_hide_others

\* "for obj in bpy.data.objects: if obj != selected_obj: hide"
HideOthersOf(h, selected_obj) ==
  [o \in Objs |-> IF o \in objects /\ o # selected_obj THEN Hidden ELSE h[o]]

\* "visibility_states[obj.name] = {...}" of every object but the selected one
SaveOthers(h, selected_obj) == [o \in objects \ {selected_obj} |-> h[o]]

\* single_object.execute; raises: the host's render invocation raises, and
\* the exception leaves execute. `timer`: the restore_settings timer it
\* registers, if any.
single_object(active, raises) ==
  IF active = NoObject
  THEN [World(NewOp) EXCEPT !.ret = "CANCELLED"] @@ [timer |-> << >>]
  ELSE
    LET visibility_states == SaveOthers(hide, active)
        w0 == [World(NewOp) EXCEPT !.hide = HideOthersOf(hide, active),
                                   !.scene = set_file_extension(scene)]
        w1 == HostRender(w0, "single", active, 0, raises)
    IN [w1 EXCEPT !.ret = IF raises THEN "EXCEPTION" ELSE "FINISHED"]
       @@ [timer |-> IF ~raises /\ scene.single_render_restore
                     THEN <<[states |-> visibility_states, h_job |-> ~job]>>
                     ELSE << >>]

\* render.single_object
SingleObject(active, raises) ==
  LET w == single_object(active, raises) IN
  /\ Len(timers) + Len(w.timer) <= MaxTimers
  /\ hide' = w.hide
  /\ scene' = w.scene
  /\ job' = w.job
  /\ timers' = timers \o w.timer
  /\ UNCHANGED <<objects, ops>>

\* restore_settings, the timer callback registered by render.single_object;
\* it returns None, which unregisters it.
RestoreSettings(k) ==
  /\ k \in 1..Len(timers)
  /\ hide' = RestoreVisibility(hide, timers[k].states)
  /\ timers' = RemoveAt(timers, k)
  /\ UNCHANGED <<objects, scene, job, ops>>

\* render.restore_all
RestoreAll ==
  /\ hide' = [o \in Objs |-> IF o \in objects THEN Visible ELSE hide[o]]
  /\ UNCHANGED <<objects, scene, job, ops, timers>>

\* render.hide_others
HideOthers(active) ==
  IF active = NoObject
  THEN UNCHANGED vars
  ELSE /\ hide' = HideOthersOf(hide, active)
       /\ UNCHANGED <<objects, scene, job, ops, timers>>

----
\* context.active_object: an object of the scene, or none.
Actives == objects \cup {NoObject}

\* The render invocations that raise: those for the list indices in F.
Raising == SUBSET (0..(NumObjs - 1))

\* scene.batch_render_index: a row, or a value past the list.
Rows == (-1)..NumObjs

\* The user starts a batch when no batch is running (the panel offers the
\* start button then; it offers it at progress 0 of a running batch too).
IdleBatchRender(F) ==
  /\ \A k \in 1..Len(ops) : ~ops[k].is_running
  /\ BatchRender(F)

\* The addon with "Auto Restore" off: every operator, a batch being started
\* when none is running.
Next ==
  \/ \E o \in Objs : DeleteObject(o)
  \/ JobDone
  \/ \E F \in Raising : IdleBatchRender(F)
  \/ \E F \in Raising : Tick(F)
  \/ CancelBatch
  \/ \E a \in Actives : AddToBatch(a)
  \/ \E index \in Rows : RemoveFromBatch(index)
  \/ ClearBatch
  \/ \E a \in Actives, raises \in BOOLEAN : SingleObject(a, raises)
  \/ RestoreAll
  \/ \E a \in Actives : HideOthers(a)

Init == InitWith(FALSE)

Spec == Init /\ [][Next]_vars

\* The batch sequencer and the list, render.batch_render being invoked at any
\* time: execute does not look for a running batch.
NextConcurrent ==
  \/ \E o \in Objs : DeleteObject(o)
  \/ JobDone
  \/ \E F \in Raising : BatchRender(F)
  \/ \E F \in Raising : Tick(F)
  \/ CancelBatch
  \/ \E a \in Actives : AddToBatch(a)
  \/ \E index \in Rows : RemoveFromBatch(index)
  \/ ClearBatch

ConcurrentSpec == Init /\ [][NextConcurrent]_vars

\* One batch at a time, timer ticks that keep arriving and render jobs that
\* stop: the window manager's timer fires every second while it is registered,
\* and a render job of the host ends.
NextFair ==
  \/ \E o \in Objs : DeleteObject(o)
  \/ JobDone
  \/ \E F \in Raising : IdleBatchRender(F)
  \/ \E F \in Raising : Tick(F)
  \/ CancelBatch
  \/ \E a \in Actives : AddToBatch(a)

FairSpec ==
  /\ Init
  /\ [][NextFair]_vars
  /\ WF_vars(\E F \in Raising : Tick(F))
  /\ WF_vars(JobDone)

\* render.single_object with "Auto Restore" on, and its timer.
NextSingle ==
  \/ \E o \in Objs : DeleteObject(o)
  \/ JobDone
  \/ \E a \in Actives, raises \in BOOLEAN : SingleObject(a, raises)
  \/ \E k \in 1..MaxTimers : RestoreSettings(k)
  \/ RestoreAll
  \/ \E a \in Actives : HideOthers(a)

InitSingle == InitWith(TRUE)

SingleSpec == InitSingle /\ [][NextSingle]_vars

----
\* What the steps a state allows do.

Range(s) == {s[i] : i \in DOMAIN s}

\* The events of render.batch_render in this state.
ExecuteEvents == UNION {Range(execute(F).ev) : F \in Raising}

\* The events of the handlers a TIMER event comes to in this state.
TickEventsOf(F) ==
  LET evs == timer_event(F).evs IN UNION {Range(evs[j]) : j \in DOMAIN evs}

TickEvents == UNION {TickEventsOf(F) : F \in Raising}

BatchEvents == ExecuteEvents \cup TickEvents

\* The events of a batch that is started when no batch is running, and of the
\* handlers.
IdleBatchEvents ==
  (IF \A k \in 1..Len(ops) : ~ops[k].is_running THEN ExecuteEvents ELSE {}) \cup TickEvents

----
\* The batch list.

\* C9: no scene object appears more than once in the batch list, whatever
\* add_to_batch, remove_from_batch and clear_batch have done; add_to_batch on
\* an object that is in the list returns CANCELLED and leaves the list as it is.
C9_NoDuplicates ==
  LET list == scene.batch_render_objects IN
  /\ \A i, j \in 1..Len(list) : list[i] = list[j] => i = j
  /\ \A a \in objects :
       (\E i \in 1..Len(list) : list[i] = a)
         => add_to_batch(a) = [list |-> list, ret |-> "CANCELLED"]

\* The list holds every object, newest first removed and added again, and
\* add_to_batch is refused for each of them.
C9_Witness ==
  LET list == scene.batch_render_objects IN
  /\ Len(list) = NumObjs
  /\ list[1] = NumObjs
  /\ \A a \in objects : add_to_batch(a).ret = "CANCELLED"
  /\ objects = Objs

\* C10: render.batch_render with an empty list or an empty output path
\* returns CANCELLED, invokes no render, registers no timer and no handler, and
\* leaves visibility, filepath, progress, status and the cancel flag as they were.
C10_NothingToRenderCancels ==
  (Len(scene.batch_render_objects) = 0 \/ scene.batch_render_path = "")
    => \A F \in Raising :
         LET w == execute(F) IN
         /\ w.ret = "CANCELLED"
         /\ w.ev = << >>
         /\ w.hide = hide
         /\ w.scene = scene
         /\ w.job = job
         /\ ~w.self.timer

\* The list is empty after a batch that was cancelled and a cancel request
\* that came after it: render.batch_render leaves the status, the progress
\* and the cancel flag of that past.
C10_Witness ==
  /\ Len(scene.batch_render_objects) = 0
  /\ scene.batch_render_path # ""
  /\ scene.batch_render_status = <<"Cancelled by user">>
  /\ scene.batch_render_cancelled
  /\ execute({}).ret = "CANCELLED"

----
\* The batch sequencer.

\* C1: a batch whose list is not edited while it runs comes to the list
\* entries in increasing order, one after the other, each once; it invokes the
\* render for an entry exactly when the entry's object exists, skips the entry
\* otherwise, and when it completes it has come to every entry.
C1_TraversalInOrder ==
  \A e \in BatchEvents :
    /\ (e.t \in {"invoke", "skip"} /\ ~e.edited)
         => /\ e.idx = e.h_last + 1
            /\ (e.t = "invoke") = e.valid
    /\ (e.t = "finish" /\ e.wasRunning /\ ~e.cancelled /\ ~e.edited)
         => e.h_last = Len(e.list) - 1

\* A timer tick on which a batch over a two-entry list skips the second
\* entry, whose object was deleted, and completes, the first entry rendered.
C1_Witness ==
  \E F \in Raising :
    LET evs == TickEventsOf(F) IN
    /\ \E e \in evs : e.t = "skip" /\ e.idx = 1 /\ ~e.edited
    /\ \E e \in evs : /\ e.t = "finish" /\ e.wasRunning /\ ~e.cancelled /\ ~e.edited
                      /\ Len(e.list) = 2 /\ e.h_last = 1 /\ e.list[1] \in objects

\* C2: when a batch ends, by completion or by cancellation, every object that
\* existed when it was started and still exists has the hide_viewport and
\* hide_render it had when the batch was started.
C2_VisibilityRestored ==
  \A e \in BatchEvents :
    (e.t = "finish" /\ e.wasRunning)
      => \A o \in (DOMAIN e.h_hide) \cap objects : e.hide[o] = e.h_hide[o]

\* A batch that was started with an object hidden and another one shown is
\* cancelled while its isolation is in force: the end changes the visibility.
C2_Witness ==
  \E e \in TickEvents :
    /\ e.t = "finish" /\ e.wasRunning /\ e.cancelled
    /\ \E o \in (DOMAIN e.h_hide) \cap objects : e.h_hide[o] = Hidden /\ hide[o] = Visible
    /\ \E o \in (DOMAIN e.h_hide) \cap objects : e.h_hide[o] = Visible /\ hide[o] = Hidden

\* C3: after a cancel request issued while a batch runs, the next timer tick
\* the batch handles ends it with CANCELLED, and the batch invokes no render
\* after the request.
C3_CancelEndsBatch ==
  \A e \in BatchEvents :
    /\ (e.t = "modal" /\ e.wasRunning /\ e.afterCancel) => e.ret = "CANCELLED"
    /\ e.t = "invoke" => ~e.afterCancel

\* C4: every batch that execute starts ends, its modal handler returning
\* FINISHED or CANCELLED (which removes the handler), when timer ticks keep
\* arriving and render jobs stop.
C4_EveryBatchEnds == (Len(ops) > 0) ~> (Len(ops) = 0)

\* A handler is registered for a batch that is over (its execute called
\* finish_batch_render before it added the timer and the handler), no other
\* batch is there, and a timer tick changes nothing.
C4_Witness ==
  /\ Len(ops) = 1
  /\ ~ops[1].is_running
  /\ ops[1].timer
  /\ ~scene.batch_render_cancelled
  /\ \A F \in Raising :
       LET st == timer_event(F) IN
       st.ops = ops /\ st.scene = scene /\ st.hide = hide /\ st.job = job

\* C5: the sequencer never invokes the host render while a render job of the
\* host is running.
C5_NoInvokeWhileJobRuns ==
  \A e \in IdleBatchEvents : e.t = "invoke" => ~e.busy

\* C6: whenever the sequencer invokes the render for a list entry, the
\* entry's object is shown (hide_viewport and hide_render False) and every
\* other object of the scene is hidden (both True).
C6_IsolatedAtInvoke ==
  \A e \in BatchEvents :
    e.t = "invoke"
      => /\ e.hide[e.obj] = Visible
         /\ \A o \in objects \ {e.obj} : e.hide[o] = Hidden

\* A timer tick on which the sequencer invokes the render for the second
\* entry, an object that is hidden, the object rendered before it being shown.
C6_Witness ==
  \E e \in TickEvents :
    /\ e.t = "invoke" /\ e.idx = 1
    /\ objects = Objs
    /\ hide[e.obj] = Hidden
    /\ \E o \in objects \ {e.obj} : hide[o] = Visible

----
\* render.single_object

\* The events of render.single_object for the active object a.
SingleEvents(a) == UNION {Range(single_object(a, raises).ev) : raises \in BOOLEAN}

\* C7: when render.single_object invokes the host render, the active object
\* has hide_render False and every other object is hidden; with no active
\* object it returns CANCELLED, invokes no render and changes no visibility.
C7_SingleIsolated ==
  /\ \A a \in objects : \A e \in SingleEvents(a) :
       e.t = "invoke"
         => /\ ~e.hide[a].hide_render
            /\ \A o \in objects \ {a} : e.hide[o] = Hidden
  /\ \A raises \in BOOLEAN :
       LET w == single_object(NoObject, raises) IN
       w.ret = "CANCELLED" /\ w.ev = << >> /\ w.hide = hide /\ w.timer = << >>

\* C8: the restore_settings timer of render.single_object never restores
\* the visibility while the render job the operator started is running.
C8_RestoreAfterRender ==
  [][\A k \in 1..Len(timers) : RestoreSettings(k) => ~timers[k].h_job]_vars

----
\* The panel.

\* "scene.batch_render_progress > 0 and scene.batch_render_progress < 100":
\* the Cancel button is drawn, the start button is disabled.
MidProgress(sc) ==
  /\ 0 < sc.batch_render_progress[1]
  /\ sc.batch_render_progress[1] < sc.batch_render_progress[2]

\* RENDER_PT_single_object_panel.draw: the start button is drawn when the
\* list and the output folder are not empty, and is enabled unless
\* 0 < batch_render_progress < 100.
StartOffered(sc) ==
  /\ Len(sc.batch_render_objects) > 0
  /\ sc.batch_render_path # ""
  /\ ~MidProgress(sc)

\* The batches that are running: started and not ended.
RunningOps == {k \in 1..Len(ops) : ops[k].is_running}

\* C11: at most one batch sequencer is running at a time; render.batch_render
\* starts no batch while one is running.
C11_OneSequencer ==
  /\ Cardinality(RunningOps) <= 1
  /\ RunningOps # {} => \A F \in Raising : execute(F).ret # "RUNNING_MODAL"

\* A batch is running, the panel offers the start button, and
\* render.batch_render starts a batch whose snapshot is the isolation the
\* running batch has set up.
C11_Witness ==
  /\ Cardinality(RunningOps) = 1
  /\ StartOffered(scene)
  /\ \E k \in RunningOps : ops[k].visibility_states # SaveVisibility(hide)
  /\ execute({}).ret = "RUNNING_MODAL"
  /\ execute({}).self.is_running

\* C12: scene.batch_render_progress is strictly between 0 and 100 whenever a
\* batch is running, and 0 or 100 whenever none is.
C12_ProgressTellsRunning == (RunningOps # {}) <=> MidProgress(scene)

\* A batch over two entries renders its first entry, the job running: the
\* progress is 0, the panel draws no Cancel button and enables the start button.
C12_Witness ==
  /\ Len(ops) = 1
  /\ ops[1].is_running /\ ops[1].current_index = 0 /\ ops[1].total_objects = 2
  /\ job /\ ops[1].h_job
  /\ scene.batch_render_progress = <<0, 1>>
  /\ StartOffered(scene)

\* C13: when a batch ends, completed or cancelled, scene.render.filepath is
\* the value it had when the batch was started.
C13_FilepathRestored ==
  \A e \in BatchEvents :
    (e.t = "finish" /\ e.wasRunning) => e.filepath = e.h_filepath

\* A timer tick on which a batch completes, the path of its last entry being
\* in scene.render.filepath.
C13_Witness ==
  \E e \in TickEvents :
    /\ e.t = "finish" /\ e.wasRunning /\ ~e.cancelled
    /\ Len(e.h_paths) > 0
    /\ scene.filepath = e.h_paths[Len(e.h_paths)]
    /\ scene.filepath # e.h_filepath
    /\ e.h_filepath = UserPath

\* C14: once finish_batch_render has run for a batch, no event timer the
\* batch registered is left with the window manager.
C14_NoTimerAfterFinish ==
  \A k \in 1..Len(ops) : ~ops[k].is_running => ~ops[k].timer

\* The status says the batch over a one-entry list is completed, and the
\* timer execute added afterwards is registered.
C14_Witness ==
  /\ Len(ops) = 1
  /\ ~ops[1].is_running /\ ops[1].timer
  /\ scene.batch_render_status = <<"Completed", 1>>
  /\ Len(scene.batch_render_objects) = 1
  /\ scene.batch_render_objects[1] \notin objects

\* C15: the sequencer changes the visibility flags and scene.render.filepath
\* (for the next entry, or restoring them at the end) only while no render
\* job the batch started is running.
C15_NoChangeWhileOwnJobRuns ==
  \A e \in BatchEvents :
    e.t \in {"invoke", "finish"} => ~e.ownJob

\* A cancel request is pending while the job of the running batch renders an
\* isolated object: the next timer tick restores the visibility and the path.
C15_Witness ==
  /\ job
  /\ scene.batch_render_cancelled
  /\ \E e \in TickEvents :
       /\ e.t = "finish" /\ e.cancelled /\ e.wasRunning /\ e.ownJob /\ e.busy
       /\ e.hide # hide
       /\ e.filepath # scene.filepath

\* C16: a batch that is started finds the cancel flag cleared, whatever was
\* requested before; a running batch ends CANCELLED only after a cancel
\* request issued while it ran; a batch that ends cancelled clears the flag.
C16_NoStaleCancel ==
  /\ \A F \in Raising :
       LET w == execute(F) IN
       w.ret = "RUNNING_MODAL" => ~w.scene.batch_render_cancelled
  /\ \A e \in TickEvents :
       (e.t = "modal" /\ e.wasRunning /\ e.ret = "CANCELLED") => e.afterCancel
  /\ \A F \in Raising :
       (\E e \in TickEventsOf(F) : e.t = "finish" /\ e.cancelled)
         => ~timer_event(F).scene.batch_render_cancelled

\* A cancel request was issued with no batch running and no handler left,
\* after a batch that completed; render.batch_render starts a batch that runs.
C16_Witness ==
  /\ scene.batch_render_cancelled
  /\ ops = << >>
  /\ scene.batch_render_status[1] = "Completed"
  /\ execute({}).ret = "RUNNING_MODAL"
  /\ execute({}).self.is_running

\* C17: on normal completion the N of the status "Completed! N objects
\* rendered" is the number of list entries the batch invoked a render for.
C17_CompletedCountsRenders ==
  \A e \in BatchEvents :
    (e.t = "finish" /\ e.wasRunning /\ ~e.cancelled) => e.total = Len(e.h_paths)

\* A timer tick on which a batch over a two-entry list, not edited, skips its
\* second entry and completes, having invoked one render.
C17_Witness ==
  \E F \in Raising :
    LET evs == TickEventsOf(F) IN
    /\ \E e \in evs : e.t = "skip" /\ e.idx = 1
    /\ \E e \in evs : /\ e.t = "finish" /\ e.wasRunning /\ ~e.cancelled /\ ~e.edited
                      /\ e.total = 2 /\ Len(e.h_paths) = 1
    /\ timer_event(F).scene.batch_render_status = <<"Completed", 2>>

\* The events of each operator call a state allows, in the order they happen:
\* those of render.batch_render, and those of each handler a timer tick comes to.
StepSequences ==
  {execute(F).ev : F \in Raising} \cup UNION {Range(timer_event(F).evs) : F \in Raising}

\* C18: when the render invocation for an entry raises, the sequencer goes on
\* with the next list entry (invoking the render for it when it is valid);
\* when the failing entry is the last one, the batch is finished, not
\* cancelled, with the visibility and the filepath restored.
C18_ContinuesAfterError ==
  \A s \in StepSequences : \A i \in DOMAIN s :
    (s[i].t = "invoke" /\ s[i].raised)
      => /\ i < Len(s)
         /\ IF s[i].idx + 1 < Len(scene.batch_render_objects)
            THEN /\ s[i + 1].t \in {"invoke", "skip"}
                 /\ s[i + 1].idx = s[i].idx + 1
                 /\ s[i + 1].obj = scene.batch_render_objects[s[i].idx + 2]
                 /\ (s[i + 1].t = "invoke") = s[i + 1].valid
            ELSE /\ s[i + 1].t = "finish"
                 /\ ~s[i + 1].cancelled
                 /\ s[i + 1].filepath = s[i + 1].h_filepath
                 /\ \A o \in (DOMAIN s[i + 1].h_hide) \cap objects :
                      s[i + 1].hide[o] = s[i + 1].h_hide[o]

\* render.batch_render over a two-entry list: the invocation for the first
\* entry raises, the one for the second entry is made and starts a job.
C18_Witness ==
  /\ ops = << >>
  /\ Len(scene.batch_render_objects) = 2
  /\ LET s == execute({0}).ev IN
     /\ Len(s) = 2
     /\ s[1].t = "invoke" /\ s[1].raised /\ s[1].idx = 0
     /\ s[2].t = "invoke" /\ ~s[2].raised /\ s[2].idx = 1
  /\ execute({0}).job

\* The path p without the "_NNN" its stem ends with.
Unnumbered(p) == SubSeq(p.stem, 1, Len(p.stem) - 4)

\* C19: within a batch every render the sequencer invokes has an output path
\* of its own: the path is in the output folder, its name ends with '_' and
\* the 1-based list position padded to three digits, then the extension, and
\* it is none of the paths of the renders the batch invoked before.
C19_OwnOutputPath ==
  \A e \in BatchEvents :
    e.t = "invoke"
      => LET stem == e.filepath.stem IN
         /\ stem[1] = scene.batch_render_path
         /\ Len(stem) > 5
         /\ SubSeq(stem, Len(stem) - 3, Len(stem))
              = <<"_", "0", "0", ToString(e.idx + 1)>>
         /\ e.filepath.ext = ".png"
         /\ \A k \in 1..Len(e.h_paths) : e.h_paths[k] # e.filepath

\* A timer tick on which the batch invokes the render for its second entry,
\* whose cleaned name is that of the first entry it rendered: the paths
\* differ in the position only.
C19_Witness ==
  \E e \in TickEvents :
    /\ e.t = "invoke" /\ e.idx = 1
    /\ Len(e.h_paths) = 1
    /\ Unnumbered(e.h_paths[1]) = Unnumbered(e.filepath)
    /\ e.h_paths[1] # e.filepath

\* p < q, for two values of scene.batch_render_progress.
Less(p, q) == p[1] * q[2] < q[1] * p[2]

\* C20: scene.batch_render_progress never decreases, except that it is reset
\* to 0 by a cancellation or by the start of a new batch; a handler that
\* ends with no cancel request pending leaves it at 100.
C20_ProgressMonotone ==
  [][/\ Less(scene'.batch_render_progress, scene.batch_render_progress)
          => /\ scene'.batch_render_progress = <<0, 1>>
             /\ scene.batch_render_cancelled \/ Len(ops') > Len(ops)
     /\ (Len(ops') < Len(ops) /\ ~scene.batch_render_cancelled)
          => scene'.batch_render_progress = <<1, 1>>]_vars

----
\* The file extension.

\* scene.render.image_settings.file_format: the host's image formats, those
\* the extension tables list and some that neither lists.
Formats ==
  {"BMP", "IRIS", "PNG", "JPEG", "JPEG2000", "TARGA", "TARGA_RAW", "CINEON",
   "DPX", "OPEN_EXR_MULTILAYER", "OPEN_EXR", "HDR", "TIFF", "WEBP"}

\* The keys of `extensions` in set_file_extension
SingleFormats == {"PNG", "JPEG", "OPEN_EXR", "TIFF", "BMP", "TARGA"}

\* The keys of `extensions` in get_file_extension
BatchFormats ==
  {"PNG", "JPEG", "OPEN_EXR", "TIFF", "BMP", "TARGA", "IRIS", "CINEON", "DPX"}

\* A new scene with "Auto Restore" off, the user having chosen the render
\* file format.
InitFormats ==
  /\ objects = Objs
  /\ hide = [o \in Objs |-> Visible]
  /\ \E f \in Formats :
       scene = [SceneDefaults EXCEPT !.single_render_restore = FALSE,
                                     !.file_format = f]
  /\ job = FALSE
  /\ ops = << >>
  /\ timers = << >>

\* Both ways of rendering: render.single_object, and the batch list with
\* render.batch_render started when no batch is running.
NextFormats ==
  \/ JobDone
  \/ \E a \in Actives : AddToBatch(a)
  \/ \E F \in Raising : IdleBatchRender(F)
  \/ \E F \in Raising : Tick(F)
  \/ \E a \in Actives, raises \in BOOLEAN : SingleObject(a, raises)

FormatSpec == InitFormats /\ [][NextFormats]_vars

\* The extensions of the paths render.single_object renders to in this state.
SingleExtensions ==
  {e.filepath.ext : e \in {x \in UNION {SingleEvents(a) : a \in objects} :
                            x.t = "invoke"}}

\* The extensions of the paths the batch renders to in this state.
BatchExtensions ==
  {e.filepath.ext : e \in {x \in IdleBatchEvents : x.t = "invoke"}}

\* C21: for every render file format, the path render.single_object renders
\* to and the paths render.batch_render renders to carry the same extension,
\* and it is ".png" for a format that neither extension table lists.
C21_SameExtension ==
  /\ \A s \in SingleExtensions, b \in BatchExtensions : s = b
  /\ scene.file_format \notin SingleFormats \cup BatchFormats
       => \A x \in SingleExtensions \cup BatchExtensions : x = ".png"

\* A format only get_file_extension lists, and a state where both operators
\* invoke a render.
C21_Witness ==
  /\ scene.file_format \in BatchFormats \ SingleFormats
  /\ SingleExtensions # {}
  /\ BatchExtensions # {}

====
